---------------------------- MODULE Spec2Model ----------------------------
(***************************************************************************)
(* A model of daily_digest.py: the four source adapters, the time-window   *)
(* and relevance filters, the deduplicator, the summarizer and main().     *)
(*                                                                         *)
(* Text is a sequence of one-character strings.  Python's None is the      *)
(* value None below, which is no text.  A timestamp is a record            *)
(* [kind, wall, off]: kind "aware" carries a UTC offset off and denotes    *)
(* the instant wall - off; kind "naive" carries no offset.  Time is        *)
(* counted in units of 1/UnitsPerHour hour.                                *)
(***************************************************************************)
EXTENDS Integers, Sequences, FiniteSets, TLC

VARIABLES
    CFG,         \* the loaded config.yaml (module level, lines 18-25)
    now,         \* the clock: what datetime.now(timezone.utc) returns
    kwText,      \* has_keywords: the argument of the last call
    kwResult,    \* has_keywords: its result (FALSE before the call)
    wlArg,       \* within_lookback: the argument of the last call
    wlResult,    \* within_lookback: its outcome
    wlNow,       \* within_lookback: the clock reading of that call
    dedupIn,     \* dedup: the argument
    dedupOut,    \* dedup: its outcome on dedupIn
    dedupOut2,   \* dedup: its outcome on its own output
    pc,          \* main(): the statement main() is at
    items,       \* main(): the local list items
    fetched,     \* main(): per adapter, how its call ended
    error,       \* the exception that ended the run, if any
    calls,       \* the functions main() has called so far, in order
    summarized,  \* main(): per index of items, how summarize_ja answered
    handed,      \* whether build_email_html was called, and with what list
    sent         \* whether send_email delivered

vars == <<CFG, now, kwText, kwResult, wlArg, wlResult, wlNow, dedupIn, dedupOut,
          dedupOut2, pc, items, fetched, error, calls, summarized, handed,
          sent>>

(***************************************************************************)
(* Bounds of the model.                                                    *)
(***************************************************************************)
UnitsPerHour == 2
MaxTextLen == 3
MaxNow == 6
MaxWall == 6
MaxLookback == 2
MaxLen == 3
MaxEntries == 2
MaxMinItems == 2

(***************************************************************************)
(* Program constants.                                                      *)
(***************************************************************************)
JST_HOURS == 9
FALLBACK_CHARS == 200

None == <<"None">>
Unset == <<"Unset">>

Min(a, b) == IF a <= b THEN a ELSE b

(***************************************************************************)
(* str.lower(), on the letters the model uses.                             *)
(***************************************************************************)
LowerChar(c) ==
    CASE c = "M" -> "m"
      [] c = "C" -> "c"
      [] c = "X" -> "x"
      [] c = "D" -> "d"
      [] c = "U" -> "u"
      [] c = "T" -> "t"
      [] OTHER -> c

lower(s) == [i \in 1..Len(s) |-> LowerChar(s[i])]

\* Python's  k in t  on strings.
Contains(k, t) ==
    \E i \in 0..(Len(t) - Len(k)) : SubSeq(t, i + 1, i + Len(k)) = k

\* Python's  x or ''  for x a string or None.
OrEmpty(x) == IF x = None THEN <<>> ELSE x

IsSpace(c) == c \in {" ", "\t", "\n"}

\* re.sub(r"\s+", " ", s): every run of whitespace becomes one space
CollapseSpaces(s) ==
    LET EndsRun(i) == ~(IsSpace(s[i]) /\ i < Len(s) /\ IsSpace(s[i + 1]))
        kept == SelectSeq([i \in 1..Len(s) |-> i], EndsRun)
    IN [k \in 1..Len(kept) |-> IF IsSpace(s[kept[k]]) THEN " " ELSE s[kept[k]]]

Strip(s) ==
    LET nonsp == {i \in 1..Len(s) : ~IsSpace(s[i])}
    IN IF nonsp = {} THEN <<>>
       ELSE SubSeq(s, CHOOSE i \in nonsp : \A j \in nonsp : i <= j,
                      CHOOSE i \in nonsp : \A j \in nonsp : j <= i)

normalize_text(s) == Strip(CollapseSpaces(OrEmpty(s)))

(***************************************************************************)
(* Module-level configuration (lines 21-25).                               *)
(***************************************************************************)
ML_KEYWORDS == {lower(k) : k \in CFG.ml_keywords}
CHEM_KEYWORDS == {lower(k) : k \in CFG.chem_keywords}
LOOKBACK_HOURS == CFG.lookback_hours
MIN_ITEMS_TO_EMAIL == CFG.min_items_to_email
MAX_RESULTS == CFG.max_results

(***************************************************************************)
(* Timestamps.                                                             *)
(***************************************************************************)
Aware(w, o) == [kind |-> "aware", wall |-> w, off |-> o]
Naive(w) == [kind |-> "naive", wall |-> w, off |-> 0]
Instant(dt) == dt.wall - dt.off
NowUtc == Aware(now, 0)
JST == JST_HOURS * UnitsPerHour
\* dt.replace(tzinfo=timezone.utc)
ReplaceUtc(dt) == Aware(dt.wall, 0)
\* dt.astimezone(JST) of an aware dt
AsJST(dt) == Aware(Instant(dt) + JST, JST)

Ok(v) == [exc |-> "none", value |-> v]
Raise(e) == [exc |-> e, value |-> FALSE]

within_lookback_lt(dt) ==
    IF dt.kind = "naive" THEN Raise("TypeError")
    ELSE Ok(now - Instant(dt) < LOOKBACK_HOURS * UnitsPerHour)

\* lines 34-36; an aware minus a naive datetime raises TypeError
within_lookback(dt) ==
    IF dt.kind = "naive" THEN Raise("TypeError")
    ELSE Ok(now - Instant(dt) <= LOOKBACK_HOURS * UnitsPerHour)

has_keywords_or(text) ==
    LET t == lower(OrEmpty(text))
        ml_ok == \E k \in ML_KEYWORDS : Contains(k, t)
        chem_ok == \E k \in CHEM_KEYWORDS : Contains(k, t)
    IN ml_ok \/ chem_ok

\* lines 42-46
has_keywords(text) ==
    LET t == lower(OrEmpty(text))
        ml_ok == \E k \in ML_KEYWORDS : Contains(k, t)
        chem_ok == \E k \in CHEM_KEYWORDS : Contains(k, t)
    IN ml_ok /\ chem_ok

(***************************************************************************)
(* dedup (lines 48-56).  A Record is [source, title, abstract, url, doi,   *)
(* published_at, summary_ja]; every adapter sets the keys url and doi,     *)
(* possibly to None, so it.get('url','') returns None when the url is      *)
(* None and .lower() on it raises AttributeError.                          *)
(***************************************************************************)
DedupKey(it) ==
    LET d == lower(OrEmpty(it.doi))
    IN IF d # <<>> THEN Ok(d)
       ELSE IF it.url = None THEN Raise("AttributeError")
       ELSE IF lower(it.url) # <<>> THEN Ok(lower(it.url))
       ELSE Ok(lower(it.title))

RECURSIVE DedupLoop(_, _, _)
DedupLoop(rest, seen, out) ==
    IF rest = <<>> THEN Ok(out)
    ELSE LET key == DedupKey(Head(rest))
         IN IF key.exc # "none" THEN Raise(key.exc)
            ELSE IF key.value # <<>> /\ key.value \notin seen
                 THEN DedupLoop(Tail(rest), seen \cup {key.value},
                                Append(out, Head(rest)))
                 ELSE DedupLoop(Tail(rest), seen, out)

dedup(its) == DedupLoop(its, {}, <<>>)

(***************************************************************************)
(* Values the variables of the other specifications rest at.               *)
(***************************************************************************)
DefaultCFG ==
    [ml_keywords |-> {<<"m">>}, chem_keywords |-> {<<"c">>},
     max_results |-> 60, lookback_hours |-> 1, min_items_to_email |-> 1]

Uncalled == [exc |-> "uncalled", value |-> FALSE]

KwIdle == kwText = Unset /\ kwResult = FALSE
WlIdle == wlArg = Naive(0) /\ wlResult = Uncalled /\ wlNow = 0
DedupIdle == dedupIn = <<>> /\ dedupOut = Uncalled /\ dedupOut2 = Uncalled
NoError == [where |-> "", stage |-> "", exc |-> "none"]
NotHanded == [given |-> FALSE, list |-> <<>>]

MainIdle ==
    /\ pc = "idle" /\ items = <<>> /\ fetched = <<>> /\ error = NoError
    /\ calls = <<>> /\ summarized = <<>> /\ handed = NotHanded /\ sent = FALSE

kwVars == <<kwText, kwResult>>
wlVars == <<wlArg, wlResult, wlNow>>
dedupVars == <<dedupIn, dedupOut, dedupOut2>>
mainVars == <<pc, items, fetched, error, calls, summarized, handed, sent>>

(***************************************************************************)
(* SpecKw: has_keywords under every vocabulary and text of the bounds.     *)
(***************************************************************************)
KwAlphabet == {"m", "M", "c", "C", "x"}

RECURSIVE TextsUpTo(_, _)
TextsUpTo(alphabet, n) ==
    IF n = 0 THEN {<<>>}
    ELSE LET shorter == TextsUpTo(alphabet, n - 1)
         IN shorter \cup {Append(t, c) : t \in shorter, c \in alphabet}

KwTexts == TextsUpTo(KwAlphabet, MaxTextLen)

MlVocabularies == {{}, {<<"m">>}, {<<"M", "x">>}, {<<"x", "m">>, <<"M", "M">>}}
ChemVocabularies == {{}, {<<"C">>}, {<<"c", "x">>}}

InitKw ==
    /\ CFG \in {[DefaultCFG EXCEPT !.ml_keywords = ml, !.chem_keywords = ch] :
                   ml \in MlVocabularies, ch \in ChemVocabularies}
    /\ now = 0
    /\ KwIdle /\ WlIdle /\ DedupIdle /\ MainIdle

HasKeywordsCall ==
    /\ \E text \in KwTexts :
          /\ kwText' = text
          /\ kwResult' = has_keywords(text)
    /\ UNCHANGED <<CFG, now, wlVars, dedupVars, mainVars>>

NextKw == HasKeywordsCall

SpecKw == InitKw /\ [][NextKw]_vars

(***************************************************************************)
(* SpecWindow: within_lookback as the clock advances.                      *)
(***************************************************************************)
WlOffsets == {0, JST, -UnitsPerHour}

WlArgs ==
    {Aware(w, o) : w \in 0..MaxWall, o \in WlOffsets}
        \cup {Naive(w) : w \in 0..MaxWall}

InitWindow ==
    /\ CFG \in {[DefaultCFG EXCEPT !.lookback_hours = h] : h \in 0..MaxLookback}
    /\ now = 0
    /\ KwIdle /\ WlIdle /\ DedupIdle /\ MainIdle

Tick ==
    /\ now < MaxNow
    /\ now' = now + 1
    /\ UNCHANGED <<CFG, kwVars, wlVars, dedupVars, mainVars>>

WithinLookbackCall ==
    /\ \E dt \in WlArgs :
          /\ wlArg' = dt
          /\ wlResult' = within_lookback(dt)
          /\ wlNow' = now
    /\ UNCHANGED <<CFG, now, kwVars, dedupVars, mainVars>>

NextWindow == Tick \/ WithinLookbackCall

SpecWindow == InitWindow /\ [][NextWindow]_vars

(***************************************************************************)
(* SpecDedup: dedup on every list of the bounds, then on its own output.   *)
(***************************************************************************)
Rec(src, ti, u, d) ==
    [source |-> src, title |-> ti, abstract |-> <<"m", " ", "c">>, url |-> u,
     doi |-> d, published_at |-> Aware(JST, JST), summary_ja |-> Unset]

DedupPool ==
    { Rec("Crossref", <<"m", "c">>, <<"u", "1">>, <<"D", "x">>),
      Rec("SemanticScholar", <<"m", "c">>, <<"u", "2">>, <<"d", "X">>),
      Rec("arXiv", <<"m", "c">>, <<"u", "1">>, None),
      Rec("bioRxiv", <<"M", "c">>, <<"U", "1">>, None),
      Rec("arXiv", <<"T", "m">>, <<>>, None),
      Rec("bioRxiv", <<>>, <<>>, None),
      Rec("Crossref", <<"t", "m">>, None, None),
      Rec("arXiv", <<>>, None, None) }

RECURSIVE ListsUpTo(_, _)
ListsUpTo(pool, n) ==
    IF n = 0 THEN {<<>>}
    ELSE LET shorter == ListsUpTo(pool, n - 1)
         IN shorter \cup {Append(l, r) : l \in shorter, r \in pool}

InitDedup ==
    /\ CFG = DefaultCFG
    /\ now = 0
    /\ dedupIn \in ListsUpTo(DedupPool, MaxLen)
    /\ dedupOut = Uncalled /\ dedupOut2 = Uncalled
    /\ KwIdle /\ WlIdle /\ MainIdle

DedupCall ==
    /\ dedupOut = Uncalled
    /\ dedupOut' = dedup(dedupIn)
    /\ UNCHANGED <<CFG, now, kwVars, wlVars, dedupIn, dedupOut2, mainVars>>

DedupAgain ==
    /\ dedupOut.exc = "none"
    /\ dedupOut2 = Uncalled
    /\ dedupOut2' = dedup(dedupOut.value)
    /\ UNCHANGED <<CFG, now, kwVars, wlVars, dedupIn, dedupOut, mainVars>>

NextDedup == DedupCall \/ DedupAgain

SpecDedup == InitDedup /\ [][NextDedup]_vars

(***************************************************************************)
(* Claims about has_keywords, within_lookback and dedup.                   *)
(***************************************************************************)
UpperChar(c) ==
    CASE c = "m" -> "M"
      [] c = "c" -> "C"
      [] c = "x" -> "X"
      [] OTHER -> c

\* term occurs in text at some offset, letters compared without case
OccursIgnoringCase(term, text) ==
    \E start \in 1..(Len(text) + 1) :
        /\ start + Len(term) - 1 <= Len(text)
        /\ \A j \in 1..Len(term) :
              UpperChar(term[j]) = UpperChar(text[start + j - 1])

\* C9: has_keywords(text) is true exactly when some term of the ML
\* vocabulary and some term of the chemistry vocabulary occur in the text,
\* compared case-insensitively; with either vocabulary empty every text is
\* rejected.
C9_HasKeywordsConjunction ==
    kwText # Unset =>
        /\ kwResult <=>
              /\ \E k \in CFG.ml_keywords : OccursIgnoringCase(k, kwText)
              /\ \E k \in CFG.chem_keywords : OccursIgnoringCase(k, kwText)
        /\ (CFG.ml_keywords = {} \/ CFG.chem_keywords = {}) => ~kwResult

\* a text accepted although no configured term occurs in it letter for
\* letter: both vocabularies matched only through case folding
C9_Witness ==
    /\ kwText # Unset
    /\ kwResult
    /\ ~\E k \in CFG.ml_keywords : Contains(k, kwText)
    /\ ~\E k \in CFG.chem_keywords : Contains(k, kwText)

\* C10: for a timezone-aware t, within_lookback(t) is true exactly when
\* now - t <= lookback_hours: accepted at exactly lookback_hours, rejected
\* when older, accepted when future-dated.
C10_WithinLookbackIff ==
    (wlResult # Uncalled /\ wlArg.kind = "aware") =>
        LET age == wlNow - (wlArg.wall - wlArg.off)
            horizon == CFG.lookback_hours * UnitsPerHour
        IN /\ wlResult.exc = "none"
           /\ age = horizon => wlResult.value
           /\ age > horizon => ~wlResult.value
           /\ age < 0 => wlResult.value
           /\ wlResult.value <=> age <= horizon

\* a record aged exactly lookback_hours, stamped in another timezone, accepted
C10_Witness ==
    /\ wlResult # Uncalled
    /\ wlArg.kind = "aware"
    /\ wlArg.off # 0
    /\ CFG.lookback_hours > 0
    /\ wlNow - (wlArg.wall - wlArg.off) = CFG.lookback_hours * UnitsPerHour
    /\ wlResult.value

\* the dedup key as the data model states it
SpecKey(r) ==
    IF OrEmpty(r.doi) # <<>> THEN lower(r.doi)
    ELSE IF OrEmpty(r.url) # <<>> THEN lower(r.url)
    ELSE lower(r.title)

CountEmptyKey(l) == Cardinality({i \in 1..Len(l) : SpecKey(l[i]) = <<>>})

RECURSIVE IsSubsequence(_, _)
IsSubsequence(a, b) ==
    IF a = <<>> THEN TRUE
    ELSE IF b = <<>> THEN FALSE
    ELSE IF Head(a) = Head(b) THEN IsSubsequence(Tail(a), Tail(b))
    ELSE IsSubsequence(a, Tail(b))

IsFirstOfKey(l, i) ==
    /\ SpecKey(l[i]) # <<>>
    /\ ~\E j \in 1..(i - 1) : SpecKey(l[j]) = SpecKey(l[i])

RECURSIVE FirstsFrom(_, _)
FirstsFrom(l, i) ==
    IF i > Len(l) THEN <<>>
    ELSE IF IsFirstOfKey(l, i) THEN <<l[i]>> \o FirstsFrom(l, i + 1)
    ELSE FirstsFrom(l, i + 1)

HasNonEmptyKey(r) == SpecKey(r) # <<>>

\* C2: every record with an empty dedup key (no DOI, no URL, empty title)
\* is kept by dedup, which does not raise: as many empty-key records leave
\* as enter.
C2_EmptyKeyKept ==
    dedupOut # Uncalled =>
        /\ CountEmptyKey(dedupIn) = Len(dedupIn) => dedupOut.exc = "none"
        /\ dedupOut.exc = "none" =>
              CountEmptyKey(dedupOut.value) = CountEmptyKey(dedupIn)

\* C3: dedup returns a subsequence of its input holding, for every
\* non-empty key, exactly the first record with that key; DOIs differing
\* only in case collapse to the first; dedup of the output is the output.
C3_DedupFirstWins ==
    /\ dedupOut # Uncalled =>
          /\ CountEmptyKey(dedupIn) = 0 => dedupOut.exc = "none"
          /\ dedupOut.exc = "none" =>
                /\ IsSubsequence(dedupOut.value, dedupIn)
                /\ SelectSeq(dedupOut.value, HasNonEmptyKey)
                      = FirstsFrom(dedupIn, 1)
    /\ dedupOut2 # Uncalled => dedupOut2 = dedupOut

(***************************************************************************)
(* The source adapters.  A date field of a provider item is                *)
(* [kind, wall, off]: "missing" (absent, None or ''), "malformed" (text    *)
(* dateutil cannot parse), "naive" or "aware" (text it parses to such a    *)
(* datetime).  An adapter's outcome is [exc, stage, value]: value is the   *)
(* returned list, exc and stage the exception that left it and where.      *)
(***************************************************************************)
MissingDate == [kind |-> "missing", wall |-> 0, off |-> 0]
MalformedDate == [kind |-> "malformed", wall |-> 0, off |-> 0]
AwareDate(w, o) == [kind |-> "aware", wall |-> w, off |-> o]
NaiveDate(w) == [kind |-> "naive", wall |-> w, off |-> 0]

\* dtparser.parse(text) of a non-empty text
ParseDate(f) ==
    IF f.kind = "malformed" THEN Raise("ParserError")
    ELSE IF f.kind = "naive" THEN Ok(Naive(f.wall))
    ELSE Ok(Aware(f.wall, f.off))

\* if dt.tzinfo is None: dt = dt.replace(tzinfo=timezone.utc)
FixTz(dt) == IF dt.kind = "naive" THEN ReplaceUtc(dt) ELSE dt

Returned(l) == [exc |-> "none", stage |-> "", value |-> l]
Raised(e, st) == [exc |-> e, stage |-> st, value |-> <<>>]

Skip == [exc |-> "none", stage |-> "", keep |-> FALSE, item |-> Unset]
Fail(e, st) == [exc |-> e, stage |-> st, keep |-> FALSE, item |-> Unset]
Keep(it) == [exc |-> "none", stage |-> "", keep |-> TRUE, item |-> it]

\* the tail of every adapter's loop body: the two filters, then the Record
FilterAndBuild(src, title, abstract, url, doi, dt) ==
    LET inside == within_lookback(dt)
    IN IF inside.exc # "none" THEN Fail(inside.exc, "window")
       ELSE IF ~inside.value THEN Skip
       ELSE IF ~has_keywords(title \o <<" ">> \o abstract) THEN Skip
       ELSE Keep([source |-> src, title |-> title, abstract |-> abstract,
                  url |-> url, doi |-> doi, published_at |-> AsJST(dt),
                  summary_ja |-> Unset])

IsKept(step) == step.keep

\* a for loop over the items: the first exception leaves the adapter
Collect(steps) ==
    LET bad == {i \in 1..Len(steps) : steps[i].exc # "none"}
    IN IF bad # {}
       THEN LET first == CHOOSE i \in bad : \A j \in bad : i <= j
            IN Raised(steps[first].exc, steps[first].stage)
       ELSE LET kept == SelectSeq(steps, IsKept)
            IN Returned([i \in 1..Len(kept) |-> kept[i].item])

\* lines 73-77
ArxivTimestamp(e) ==
    LET parsed == IF e.published.kind # "missing" THEN ParseDate(e.published)
                  ELSE IF e.updated.kind # "missing" THEN ParseDate(e.updated)
                  ELSE Ok(NowUtc)
    IN IF parsed.exc # "none" THEN parsed ELSE Ok(FixTz(parsed.value))

\* lines 69-89
ArxivItem(e) ==
    LET dt == ArxivTimestamp(e)
    IN IF dt.exc # "none" THEN Fail(dt.exc, "timestamp")
       ELSE FilterAndBuild("arXiv", normalize_text(e.title),
                           normalize_text(e.summary), e.link, None, dt.value)

\* lines 59-91.  feedparser.parse either returns a result (kind "entries",
\* or "bozo": a failure it recorded, with no entries) or lets an exception
\* escape (kind "raised"); nothing here catches it.
fetch_arxiv(resp) ==
    IF resp.kind = "raised" THEN Raised("OSError", "provider")
    ELSE Collect([i \in 1..Len(resp.entries) |-> ArxivItem(resp.entries[i])])

\* ' '.join(rec.get('title', []))
RECURSIVE JoinSpace(_)
JoinSpace(parts) ==
    IF parts = <<>> THEN <<>>
    ELSE IF Len(parts) = 1 THEN parts[1]
    ELSE parts[1] \o <<" ">> \o JoinSpace(Tail(parts))

\* lines 118-134.  A published-print / published-online field is "absent"
\* (no such key), "null" (date-parts [[None]]), "date" (a valid year, month
\* and day: midnight UTC of wall) or "invalid" (parts datetime() rejects).
CrossrefTimestamp(rec) ==
    LET pp == rec.published_print
        po == rec.published_online
    IN IF pp.kind = "invalid" THEN Raise("ValueError")
       ELSE IF pp.kind = "date" THEN Ok(Aware(pp.wall, 0))
       ELSE IF po.kind = "invalid" THEN Raise("ValueError")
       ELSE IF po.kind = "date" THEN Ok(Aware(po.wall, 0))
       ELSE IF rec.created.kind # "missing" THEN ParseDate(rec.created)
       ELSE Ok(NowUtc)

\* lines 113-147
CrossrefItem(rec) ==
    LET dt == CrossrefTimestamp(rec)
    IN IF dt.exc # "none" THEN Fail(dt.exc, "timestamp")
       ELSE FilterAndBuild("Crossref", normalize_text(JoinSpace(rec.title)),
                           normalize_text(rec.abstract), rec.URL, rec.DOI,
                           dt.value)

\* lines 94-149.  The request ends in a transport error, an HTTP error
\* status, a body that is not JSON, or a JSON body.
fetch_crossref(resp) ==
    IF resp.kind \in {"transport_error", "http_error"} THEN Returned(<<>>)
    ELSE IF resp.kind = "not_json" THEN Raised("JSONDecodeError", "provider")
    ELSE Collect([i \in 1..Len(resp.entries) |-> CrossrefItem(resp.entries[i])])

\* lines 164-166
BiorxivTimestamp(e) ==
    LET parsed == IF e.published.kind # "missing" THEN ParseDate(e.published)
                  ELSE Ok(NowUtc)
    IN IF parsed.exc # "none" THEN parsed ELSE Ok(FixTz(parsed.value))

\* lines 160-178
BiorxivItem(e) ==
    LET dt == BiorxivTimestamp(e)
    IN IF dt.exc # "none" THEN Fail(dt.exc, "timestamp")
       ELSE FilterAndBuild("bioRxiv", normalize_text(e.title),
                           normalize_text(e.summary), e.link, None, dt.value)

\* lines 152-180
fetch_biorxiv(resp) ==
    IF resp.kind = "raised" THEN Returned(<<>>)
    ELSE LET capped == SubSeq(resp.entries, 1,
                              Min(MAX_RESULTS, Len(resp.entries)))
         IN Collect([i \in 1..Len(capped) |-> BiorxivItem(capped[i])])

\* lines 210-218
S2Timestamp(p) ==
    IF p.publicationDate.kind = "missing" THEN Ok(NowUtc)
    ELSE LET parsed == ParseDate(p.publicationDate)
         IN IF parsed.exc # "none" THEN Ok(NowUtc)
            ELSE Ok(FixTz(parsed.value))

\* lines 205-230
S2Item(p) ==
    LET dt == S2Timestamp(p)
    IN IF dt.exc # "none" THEN Fail(dt.exc, "timestamp")
       ELSE FilterAndBuild("SemanticScholar", normalize_text(p.title),
                           normalize_text(p.abstract), p.url, p.doi, dt.value)

\* lines 183-232; kind "no_api_key": S2_API_KEY is not set
fetch_semanticscholar(resp) ==
    IF resp.kind \in {"no_api_key", "transport_error", "http_error"}
    THEN Returned(<<>>)
    ELSE IF resp.kind = "not_json" THEN Raised("JSONDecodeError", "provider")
    ELSE Collect([i \in 1..Len(resp.entries) |-> S2Item(resp.entries[i])])

(***************************************************************************)
(* summarize_ja (lines 234-254).  The service call answers with a          *)
(* completion (kind "ok") or an exception is raised inside the try (kind   *)
(* "error": a timeout, an auth failure, or a response without choices, on  *)
(* which choices[0] raises).                                               *)
(***************************************************************************)
summarize_ja_untruncated(title, abstract, outcome) ==
    IF outcome.kind = "ok" THEN Ok(normalize_text(outcome.content))
    ELSE Ok(OrEmpty(abstract))

summarize_ja(title, abstract, outcome) ==
    IF outcome.kind = "ok" THEN Ok(normalize_text(outcome.content))
    ELSE Ok(SubSeq(OrEmpty(abstract), 1,
                   Min(FALLBACK_CHARS, Len(OrEmpty(abstract)))))

ServiceOutcomes ==
    { [kind |-> "ok", content |-> <<" ", "j", " ", "\n", "a">>],
      [kind |-> "error", content |-> <<>>] }

(***************************************************************************)
(* What the providers answer.                                              *)
(***************************************************************************)
RecentWall == 0 - 1
OldWall == 0 - (MaxLookback * UnitsPerHour) - 1

LongAbstract ==
    [i \in 1..(FALLBACK_CHARS + 5) |->
        IF i % 10 = 0 THEN " " ELSE IF i % 2 = 0 THEN "m" ELSE "c"]

FeedEntry(ti, su, li, pu, up) ==
    [title |-> ti, summary |-> su, link |-> li, published |-> pu,
     updated |-> up]

ArxivPool ==
    { FeedEntry(<<" ", "m", "\t", " ", "c">>, <<"x">>, <<"u", "1">>,
                AwareDate(RecentWall, 0), MissingDate),
      FeedEntry(<<"m", " ", "c">>, <<"x">>, <<"u", "1">>,
                MalformedDate, MissingDate),
      FeedEntry(<<"m", " ", "c">>, <<"x">>, <<"u", "1">>,
                MissingDate, NaiveDate(OldWall)) }

BiorxivPool ==
    { FeedEntry(<<"M", " ", "c">>, <<"x">>, <<"U", "1">>,
                MissingDate, MissingDate),
      FeedEntry(<<"x">>, LongAbstract, <<"u", "3">>,
                AwareDate(RecentWall + JST, JST), MissingDate),
      FeedEntry(<<"m", " ", "c">>, <<"x">>, <<"u", "3">>,
                MalformedDate, MissingDate) }

AbsentParts == [kind |-> "absent", wall |-> 0]
NullParts == [kind |-> "null", wall |-> 0]
DateParts(w) == [kind |-> "date", wall |-> w]
InvalidParts == [kind |-> "invalid", wall |-> 0]

CrossrefRec(ti, ab, u, d, pp, po, cr) ==
    [title |-> ti, abstract |-> ab, URL |-> u, DOI |-> d,
     published_print |-> pp, published_online |-> po, created |-> cr]

CrossrefPool ==
    { CrossrefRec(<<<<"M">>, <<"c">>>>, <<>>, <<"u", "2">>, <<"D", "x">>,
                  DateParts(RecentWall), AbsentParts, MissingDate),
      CrossrefRec(<<<<"m", " ", "c">>>>, <<>>, None, None,
                  NullParts, AbsentParts, AwareDate(0, 0)),
      CrossrefRec(<<<<"m", " ", "c">>>>, <<>>, <<"u", "2">>, <<"D", "x">>,
                  AbsentParts, NullParts, NaiveDate(RecentWall)),
      CrossrefRec(<<<<"m", " ", "c">>>>, <<>>, <<"u", "2">>, <<"D", "x">>,
                  AbsentParts, DateParts(OldWall), MissingDate),
      CrossrefRec(<<<<"m", " ", "c">>>>, <<>>, <<"u", "2">>, <<"D", "x">>,
                  NullParts, InvalidParts, MissingDate) }

S2Paper(ti, ab, u, d, pd) ==
    [title |-> ti, abstract |-> ab, url |-> u, doi |-> d,
     publicationDate |-> pd]

S2Pool ==
    { S2Paper(<<"m", " ", "c">>, None, <<"u", "4">>, <<"d", "X">>,
              MalformedDate),
      S2Paper(<<"m", " ", " ", "c">>, None, <<"u", "4">>, <<"d", "X">>,
              NaiveDate(0)),
      S2Paper(<<"m", " ", "c">>, None, <<"u", "4">>, <<"d", "X">>,
              AwareDate(OldWall, 0)) }

Answer(k, l) == [kind |-> k, entries |-> l]

FeedAnswers(pool) ==
    {Answer("raised", <<>>), Answer("bozo", <<>>)}
        \cup {Answer("entries", l) : l \in ListsUpTo(pool, MaxEntries)}

HttpAnswers(pool) ==
    {Answer(k, <<>>) : k \in {"transport_error", "http_error", "not_json"}}
        \cup {Answer("json", l) : l \in ListsUpTo(pool, MaxEntries)}

ProviderFailed(kind) ==
    kind \in {"raised", "bozo", "transport_error", "http_error", "not_json"}

(***************************************************************************)
(* main() (lines 299-321), statement by statement.                         *)
(***************************************************************************)
Adapters == {"fetch_arxiv", "fetch_crossref", "fetch_biorxiv",
             "fetch_semanticscholar"}

Pending == [status |-> "pending", kind |-> "", out |-> <<>>]

\* A run lasts seconds, far less than one unit of time: every
\* datetime.now() of a run reads the same value of now.
Init ==
    /\ CFG \in {[DefaultCFG EXCEPT !.min_items_to_email = n] :
                   n \in 1..MaxMinItems}
    /\ now = 0
    /\ pc = "fetch_arxiv"
    /\ items = <<>>
    /\ fetched = [a \in Adapters |-> Pending]
    /\ error = NoError
    /\ calls = <<>>
    /\ summarized = <<>>
    /\ handed = NotHanded
    /\ sent = FALSE
    /\ KwIdle /\ WlIdle /\ DedupIdle

Merge_prepend(acc, out) == out \o acc

\* items += ...
Merge(acc, out) == acc \o out

\* items += fetch_x(): the call, and what is left of main() if it raises
Fetch(name, kind, r, nextpc) ==
    /\ calls' = Append(calls, name)
    /\ fetched' = [fetched EXCEPT ![name] =
                      [status |-> IF r.exc = "none" THEN "returned"
                                  ELSE "raised",
                       kind |-> kind, out |-> r.value]]
    /\ items' = Merge(items, r.value)
    /\ error' = IF r.exc = "none" THEN error
                ELSE [where |-> name, stage |-> r.stage, exc |-> r.exc]
    /\ pc' = IF r.exc = "none" THEN nextpc ELSE "Crashed"
    /\ UNCHANGED <<CFG, now, kwVars, wlVars, dedupVars, summarized, handed,
                   sent>>

\* line 301
FetchArxiv ==
    /\ pc = "fetch_arxiv"
    /\ \E resp \in FeedAnswers(ArxivPool) :
          Fetch("fetch_arxiv", resp.kind, fetch_arxiv(resp), "fetch_crossref")

\* line 302
FetchCrossref ==
    /\ pc = "fetch_crossref"
    /\ \E resp \in HttpAnswers(CrossrefPool) :
          Fetch("fetch_crossref", resp.kind, fetch_crossref(resp),
                "fetch_biorxiv")

\* line 303
FetchBiorxiv ==
    /\ pc = "fetch_biorxiv"
    /\ \E resp \in FeedAnswers(BiorxivPool) :
          Fetch("fetch_biorxiv", resp.kind, fetch_biorxiv(resp),
                "fetch_semanticscholar")

\* line 304
FetchSemanticScholar ==
    /\ pc = "fetch_semanticscholar"
    /\ \E resp \in HttpAnswers(S2Pool) \cup {Answer("no_api_key", <<>>)} :
          Fetch("fetch_semanticscholar", resp.kind,
                fetch_semanticscholar(resp), "check_empty")

NotItems_never(l) == FALSE

\* line 306: not items
NotItems(l) == l = <<>>

\* lines 306-308
CheckEmpty ==
    /\ pc = "check_empty"
    /\ pc' = IF NotItems(items) THEN "Empty" ELSE "dedup"
    /\ UNCHANGED <<CFG, now, kwVars, wlVars, dedupVars, items, fetched,
                   error, calls, summarized, handed, sent>>

\* line 310
Dedup ==
    /\ pc = "dedup"
    /\ LET r == dedup(items)
       IN /\ calls' = Append(calls, "dedup")
          /\ items' = IF r.exc = "none" THEN r.value ELSE items
          /\ error' = IF r.exc = "none" THEN error
                      ELSE [where |-> "dedup", stage |-> "key", exc |-> r.exc]
          /\ pc' = IF r.exc # "none" THEN "Crashed"
                   ELSE IF r.value = <<>> THEN "threshold"
                   ELSE "summarize"
    /\ UNCHANGED <<CFG, now, kwVars, wlVars, dedupVars, fetched, summarized,
                   handed, sent>>

\* lines 312-313: one turn of the loop
Summarize ==
    /\ pc = "summarize"
    /\ \E outcome \in ServiceOutcomes :
          LET idx == Len(summarized) + 1
              r == summarize_ja(items[idx].title, items[idx].abstract, outcome)
          IN /\ calls' = Append(calls, "summarize_ja")
             /\ summarized' = Append(summarized, outcome)
             /\ items' = IF r.exc = "none"
                         THEN [items EXCEPT ![idx].summary_ja = r.value]
                         ELSE items
             /\ error' = IF r.exc = "none" THEN error
                         ELSE [where |-> "summarize_ja", stage |-> "service",
                               exc |-> r.exc]
             /\ pc' = IF r.exc # "none" THEN "Crashed"
                      ELSE IF idx = Len(items) THEN "threshold"
                      ELSE "summarize"
    /\ UNCHANGED <<CFG, now, kwVars, wlVars, dedupVars, fetched, handed, sent>>

BelowMinimum_le(n) == n <= MIN_ITEMS_TO_EMAIL

\* line 315
BelowMinimum(n) == n < MIN_ITEMS_TO_EMAIL

\* lines 315-317
Threshold ==
    /\ pc = "threshold"
    /\ pc' = IF BelowMinimum(Len(items)) THEN "Skipped" ELSE "render"
    /\ UNCHANGED <<CFG, now, kwVars, wlVars, dedupVars, items, fetched,
                   error, calls, summarized, handed, sent>>

\* lines 319-321: build_email_html(items), then send_email, which raises
\* when the environment or the SMTP server fails it
RenderAndSend ==
    /\ pc = "render"
    /\ calls' = calls \o <<"build_email_html", "send_email">>
    /\ handed' = [given |-> TRUE, list |-> items]
    /\ \E delivered \in BOOLEAN :
          /\ sent' = delivered
          /\ pc' = IF delivered THEN "Sent" ELSE "Crashed"
          /\ error' = IF delivered THEN error
                      ELSE [where |-> "send_email", stage |-> "smtp",
                            exc |-> "SMTPException"]
    /\ UNCHANGED <<CFG, now, kwVars, wlVars, dedupVars, items, fetched,
                   summarized>>

Next ==
    \/ FetchArxiv
    \/ FetchCrossref
    \/ FetchBiorxiv
    \/ FetchSemanticScholar
    \/ CheckEmpty
    \/ Dedup
    \/ Summarize
    \/ Threshold
    \/ RenderAndSend

Spec == Init /\ [][Next]_vars

(***************************************************************************)
(* Claims about the adapters and main().                                   *)
(***************************************************************************)
\* the adapters' outputs, concatenated in main()'s order
Concat ==
    fetched["fetch_arxiv"].out \o fetched["fetch_crossref"].out
        \o fetched["fetch_biorxiv"].out
        \o fetched["fetch_semanticscholar"].out

StripSummary(l) == [i \in 1..Len(l) |-> [l[i] EXCEPT !.summary_ja = Unset]]

AllSummarized ==
    /\ Len(summarized) = Len(items)
    /\ \A i \in 1..Len(items) : items[i].summary_ja # Unset

Downstream == {"dedup", "summarize_ja", "build_email_html", "send_email"}

\* C1: an adapter whose provider call failed as a whole (transport error,
\* HTTP error, unparseable body) returns an empty list and does not raise,
\* so the run goes on to the later adapters.
C1_FailSoft ==
    \A a \in Adapters :
        (fetched[a].status # "pending" /\ ProviderFailed(fetched[a].kind)) =>
            /\ fetched[a].status = "returned"
            /\ fetched[a].out = <<>>
            /\ error.where # a

\* C7: in every adapter, timestamp extraction never raises and never lets
\* a naive timestamp reach the time-window comparison; every Record's
\* published_at is timezone-aware.
C7_TimestampNeverRaises ==
    /\ error.stage \notin {"timestamp", "window"}
    /\ \A i \in 1..Len(items) : items[i].published_at.kind = "aware"

\* C4: when all four adapters returned no records, the run ends Empty:
\* no dedup, no summarize_ja, no build_email_html, no send_email.
C4_EmptyTerminal ==
    (\A a \in Adapters :
        fetched[a].status = "returned" /\ fetched[a].out = <<>>) =>
        /\ pc \in {"check_empty", "Empty"}
        /\ \A i \in 1..Len(calls) : calls[i] \notin Downstream
        /\ summarized = <<>>
        /\ ~handed.given
        /\ ~sent

\* all four adapters came back empty, one of them after a provider failure,
\* and the run ended Empty
C4_Witness ==
    /\ pc = "Empty"
    /\ \A a \in Adapters : fetched[a].status = "returned"
    /\ fetched["fetch_crossref"].kind = "http_error"
    /\ fetched["fetch_semanticscholar"].kind = "json"

\* C5: a run whose merged list is non-empty and whose survivors of dedup
\* number less than min_items_to_email hands nothing over and ends without
\* error, after every survivor was summarized; a handoff happens only with
\* at least min_items_to_email survivors.
C5_ThresholdAfterSummaries ==
    /\ pc = "Skipped" =>
          /\ Concat # <<>>
          /\ Len(items) < CFG.min_items_to_email
          /\ AllSummarized
          /\ ~handed.given /\ ~sent /\ error = NoError
    /\ (pc \in {"render", "Sent"} \/ handed.given
          \/ error.where = "send_email") =>
          /\ Len(items) >= CFG.min_items_to_email
          /\ AllSummarized
    /\ (pc \in {"Empty", "Skipped", "Sent", "Crashed"} /\ AllSummarized
          /\ Concat # <<>> /\ Len(items) < CFG.min_items_to_email) =>
          pc = "Skipped"

\* one survivor, a minimum of two: summarized, then skipped
C5_Witness ==
    /\ pc = "Skipped"
    /\ CFG.min_items_to_email = 2
    /\ Len(items) = 1
    /\ Len(Concat) > 1
    /\ items[1].summary_ja # Unset

\* C6: summarize_ja never fails the run; a record whose service call
\* failed gets the first 200 characters of its own abstract, the loop goes
\* on to the remaining records, and every other record's summary is what
\* its own call gave.
C6_SummarizerFallback ==
    /\ error.where # "summarize_ja"
    /\ Len(summarized) <= Len(items)
    /\ \A i \in 1..Len(summarized) :
          LET abstract == items[i].abstract
              summary == items[i].summary_ja
          IN /\ summarized[i].kind = "error" =>
                   /\ Len(summary) = IF Len(abstract) <= FALLBACK_CHARS
                                     THEN Len(abstract) ELSE FALLBACK_CHARS
                   /\ \A k \in 1..Len(summary) : summary[k] = abstract[k]
                   /\ abstract # <<>> => summary # <<>>
             /\ summarized[i].kind = "ok" =>
                   summary = normalize_text(summarized[i].content)
    /\ \A i \in (Len(summarized) + 1)..Len(items) :
          items[i].summary_ja = Unset
    /\ pc \in {"threshold", "Skipped", "render", "Sent"} => AllSummarized

\* three records with distinct keys, the service failing on the one with
\* the long abstract only
C6_Witness ==
    /\ pc = "threshold"
    /\ Len(items) = 3
    /\ \E i \in 1..3 :
          /\ summarized[i].kind = "error"
          /\ Len(items[i].abstract) > FALLBACK_CHARS
          /\ Len(items[i].summary_ja) = FALLBACK_CHARS
          /\ \A j \in (1..3) \ {i} :
                /\ summarized[j].kind = "ok"
                /\ items[j].summary_ja = <<"j", " ", "a">>

\* C8: what is handed to rendering is the dedup of the adapters' outputs
\* concatenated in the order arXiv, Crossref, bioRxiv, Semantic Scholar,
\* never re-sorted; of two providers' records with the same DOI up to case
\* the earlier provider's survives.
C8_MergeOrder ==
    /\ pc \in {"check_empty", "dedup"} => items = Concat
    /\ handed.given =>
          LET h == StripSummary(handed.list)
          IN /\ IsSubsequence(h, Concat)
             /\ SelectSeq(h, HasNonEmptyKey) = FirstsFrom(Concat, 1)
             /\ \A j \in 1..Len(Concat) :
                   OrEmpty(Concat[j].doi) # <<>> =>
                       LET same == {k \in 1..Len(Concat) :
                                       lower(OrEmpty(Concat[k].doi))
                                           = lower(Concat[j].doi)}
                           first == CHOOSE k \in same : \A m \in same : k <= m
                           inH == {i \in 1..Len(h) :
                                      lower(OrEmpty(h[i].doi))
                                          = lower(Concat[j].doi)}
                       IN /\ Cardinality(inH) = 1
                          /\ \A i \in inH : h[i] = Concat[first]

\* Crossref and Semantic Scholar both returned the DOI, in different case,
\* after an arXiv and a bioRxiv record sharing a URL; two records are handed
\* over, arXiv's and Crossref's
C8_Witness ==
    /\ handed.given
    /\ \E j \in 1..Len(Concat) :
          Concat[j].source = "SemanticScholar" /\ Concat[j].doi = <<"d", "X">>
    /\ \E j \in 1..Len(Concat) : Concat[j].source = "bioRxiv"
    /\ Len(handed.list) = 2
    /\ handed.list[1].source = "arXiv"
    /\ handed.list[2].source = "Crossref"
    /\ handed.list[2].doi = <<"D", "x">>

=============================================================================
